---- MODULE Spec2Model ----
(***************************************************************************)
(* Model of switchcase.py: the @case tagging decorator (_Case, case) and   *)
(* the dispatch engine (enable, copyEnable), with main.py's switch class   *)
(* as the declared group.                                                  *)
(*                                                                         *)
(* Python objects are records [ty, v]; == between objects of different     *)
(* Python types is record inequality.  A _Case instance is the record      *)
(* [ty |-> "_Case", function, case].  A raised exception is an outcome     *)
(* record, never a return value.                                           *)
(***************************************************************************)
EXTENDS Naturals, Sequences, FiniteSets, TLC

VARIABLES
    switch,       \* the _Case / data attributes of the switch class __dict__, in declaration order
    phase,        \* "declaring" (class body running), "active" (class defined), "failed" (class body raised)
    declExc,      \* name of the exception that escaped the class body, "" if none
    Matched_msg,  \* the class attribute Matched.msg (switchcase.py:13), Unset until first assigned
    ref,          \* reference passed to the last completed enable() call
    ret,          \* value the last enable() call returned
    outcome,      \* "none" before any call, "return", or the name of the exception enable() raised
    calls,        \* handler bodies invoked by the last enable() call: <<[idx, ctx, pass]>>
    memRef,       \* a reference of an earlier enable() call, remembered for comparison
    memRet,       \* what that earlier call returned
    cur,          \* the caller's loop variable in  ref = enable(switch, ref)
    start,        \* the loop's starting reference
    n,            \* number of loop iterations done
    since,        \* enable() calls completed after the remembered one (2 stands for two or more)
    th            \* per-thread state of interleaved enable() calls

vars == <<switch, phase, declExc, Matched_msg, ref, ret, outcome, calls,
          memRef, memRet, cur, start, n, since, th>>

(***************************************************************************)
(* Bounds                                                                  *)
(***************************************************************************)
MaxAttrs == 3      \* attributes declared in one switch class
MaxSteps == 24     \* iterations of the caller's loop
MaxTwiceAttrs == 2 \* attributes of a class that is activated repeatedly

(***************************************************************************)
(* Python values                                                           *)
(***************************************************************************)
Int(s) == [ty |-> "int", v |-> s]
Str(s) == [ty |-> "str", v |-> s]
None == [ty |-> "NoneType", v |-> "None"]
Fn(name) == [ty |-> "function", v |-> name]
\* Matched.msg before line 13 has ever run: the attribute does not exist.
Unset == [ty |-> "<unset>", v |-> ""]

\* Python truthiness of the values used here (switchcase.py:26, `if function:`).
Truthy(x) == ~(x = None \/ x = Int("0") \/ x = Str(""))

\* The default label, the literal at switchcase.py:70 and main.py:15.
DefaultLabel == Str("__default__")

\* Handler bodies.  main.py's bodies all `return ctx`; the others return a constant.
FunctionBody(f, ctx) ==
    CASE f.v = "return_ctx"  -> ctx
      [] f.v = "return_1"    -> Int("1")
      [] f.v = "return_2"    -> Int("2")
      [] f.v = "return_stop" -> Str("stop")

(***************************************************************************)
(* class _Case                                                             *)
(***************************************************************************)
\* _Case.__init__
_Case(function, case_) == [ty |-> "_Case", function |-> function, case |-> case_]

\* isinstance(x, _Case)
isinstance_Case(x) == x.ty = "_Case"

\* Variant of __call__ with the test of line 11 inverted (`if ref != self.case`).
Case_call_Inverted(self, r, msg) ==
    IF r # self.case
    THEN IF self.function.ty = "function"
         THEN LET ref1 == FunctionBody(self.function, r)
              IN [exc |-> "Matched", arg |-> ref1, msg |-> ref1, ran |-> TRUE]
         ELSE [exc |-> "TypeError", arg |-> self.function, msg |-> msg, ran |-> FALSE]
    ELSE [exc |-> "NotMatchedError", arg |-> r, msg |-> msg, ran |-> FALSE]

\* _Case.__call__(self, ref): always raises.  exc is the exception raised, arg its
\* argument, msg the value of Matched.msg afterwards, ran whether the body was invoked.
Case_call(self, r, msg) ==
    IF r = self.case
    THEN IF self.function.ty = "function"
         THEN LET ref1 == FunctionBody(self.function, r)
              IN [exc |-> "Matched", arg |-> ref1, msg |-> ref1, ran |-> TRUE]
         ELSE [exc |-> "TypeError", arg |-> self.function, msg |-> msg, ran |-> FALSE]
    ELSE [exc |-> "NotMatchedError", arg |-> r, msg |-> msg, ran |-> FALSE]

(***************************************************************************)
(* def case(function=None, **kwargs)                                       *)
(***************************************************************************)
\* The inner `wrapper` closure, as a value holding the captured kwargs.
Wrapper(kwargs) == [ty |-> "wrapper", kwargs |-> kwargs]

\* case(function, **kwargs): kwargs is the sequence of keyword values in call order.
case(function, kwargs) ==
    IF Truthy(function) THEN _Case(function, None) ELSE Wrapper(kwargs)

\* wrapper(function): _Case(function, list(kwargs.values())[0])
wrapper(w, function) ==
    IF Len(w.kwargs) = 0
    THEN [exc |-> "IndexError", val |-> None]
    ELSE [exc |-> "", val |-> _Case(function, w.kwargs[1])]

\* Applying the decorator object d to the function f being defined:  d(f).
Decorate(d, f, msg) ==
    IF d.ty = "wrapper"
    THEN LET r == wrapper(d, f) IN [exc |-> r.exc, val |-> r.val, msg |-> msg]
    ELSE LET r == Case_call(d, f, msg) IN [exc |-> r.exc, val |-> None, msg |-> r.msg]

(***************************************************************************)
(* def copyEnable(switch, ref) and def enable(switch, ref)                 *)
(***************************************************************************)
\* One entry of the record of body invocations.
Invocation(i, r, pass) == [idx |-> i, ctx |-> r, pass |-> pass]

\* copyEnable's for loop from attribute i on (switchcase.py:39-47).  exit is "return"
\* (line 47), "end" (the loop ran out: the function returns None implicitly) or the
\* name of an exception neither except clause catches.
RECURSIVE copyEnableLoop(_, _, _, _, _)
copyEnableLoop(sw, r, i, msg, cs) ==
    IF i > Len(sw)
    THEN [exit |-> "end", ret |-> None, msg |-> msg, calls |-> cs]
    ELSE IF ~isinstance_Case(sw[i])
    THEN copyEnableLoop(sw, r, i + 1, msg, cs)
    ELSE LET c == Case_call(sw[i], r, msg)
             cs2 == IF c.ran THEN Append(cs, Invocation(i, r, "fallback")) ELSE cs
         IN CASE c.exc = "NotMatchedError" -> copyEnableLoop(sw, r, i + 1, c.msg, cs2)
              [] c.exc = "Matched" -> [exit |-> "return", ret |-> c.msg, msg |-> c.msg, calls |-> cs2]
              [] OTHER -> [exit |-> c.exc, ret |-> None, msg |-> c.msg, calls |-> cs2]

copyEnable(sw, r, msg, cs) == copyEnableLoop(sw, r, 1, msg, cs)

\* Variant of enable's loop whose `except Matched` does not return (`pass` as in the
\* clause above it): every later handler is still called, and the value of the last
\* match is what comes back.
RECURSIVE enableLoop_NoEarlyReturn(_, _, _, _, _)
enableLoop_NoEarlyReturn(sw, r, i, msg, cs) ==
    IF i > Len(sw)
    THEN [exit |-> "end", ret |-> None, msg |-> msg, calls |-> cs]
    ELSE IF ~isinstance_Case(sw[i])
    THEN enableLoop_NoEarlyReturn(sw, r, i + 1, msg, cs)
    ELSE LET c == Case_call(sw[i], r, msg)
             cs2 == IF c.ran THEN Append(cs, Invocation(i, r, "match")) ELSE cs
             rest == enableLoop_NoEarlyReturn(sw, r, i + 1, c.msg, cs2)
         IN CASE c.exc = "NotMatchedError" -> rest
              [] c.exc = "Matched" ->
                   IF rest.exit = "end"
                   THEN [exit |-> "return", ret |-> rest.msg, msg |-> rest.msg, calls |-> rest.calls]
                   ELSE rest
              [] OTHER -> [exit |-> c.exc, ret |-> None, msg |-> c.msg, calls |-> cs2]

\* enable's for loop from attribute i on (switchcase.py:61-69).
RECURSIVE enableLoop(_, _, _, _, _)
enableLoop(sw, r, i, msg, cs) ==
    IF i > Len(sw)
    THEN [exit |-> "end", ret |-> None, msg |-> msg, calls |-> cs]
    ELSE IF ~isinstance_Case(sw[i])
    THEN enableLoop(sw, r, i + 1, msg, cs)
    ELSE LET c == Case_call(sw[i], r, msg)
             cs2 == IF c.ran THEN Append(cs, Invocation(i, r, "match")) ELSE cs
         IN CASE c.exc = "NotMatchedError" -> enableLoop(sw, r, i + 1, c.msg, cs2)
              [] c.exc = "Matched" -> [exit |-> "return", ret |-> c.msg, msg |-> c.msg, calls |-> cs2]
              [] OTHER -> [exit |-> c.exc, ret |-> None, msg |-> c.msg, calls |-> cs2]

\* Variant of enable that ends with `return Matched.msg` after line 70.
enable_ReturnsMsg(sw, r, msg) ==
    LET m == enableLoop(sw, r, 1, msg, <<>>)
    IN IF m.exit # "end"
       THEN m
       ELSE LET d == copyEnable(sw, DefaultLabel, m.msg, m.calls)
            IN IF d.exit \in {"end", "return"}
               THEN [exit |-> "return", ret |-> d.msg, msg |-> d.msg, calls |-> d.calls]
               ELSE d

\* Variant of enable whose `except Matched` returns ref, the value its docstring names.
enable_ReturnsRef(sw, r, msg) ==
    LET m == enableLoop(sw, r, 1, msg, <<>>)
    IN IF m.exit = "return"
       THEN [m EXCEPT !.ret = r]
       ELSE IF m.exit # "end"
       THEN m
       ELSE LET d == copyEnable(sw, DefaultLabel, m.msg, m.calls)
            IN IF d.exit \in {"end", "return"}
               THEN [exit |-> "return", ret |-> None, msg |-> d.msg, calls |-> d.calls]
               ELSE d

\* enable(switch, ref) called while Matched.msg = msg.  After the loop, line 70 calls
\* copyEnable(switch, ref="__default__") and drops its value; the function then ends
\* without a return statement, so the call evaluates to None.
enable(sw, r, msg) ==
    LET m == enableLoop(sw, r, 1, msg, <<>>)
    IN IF m.exit # "end"
       THEN m
       ELSE LET d == copyEnable(sw, DefaultLabel, m.msg, m.calls)
            IN IF d.exit \in {"end", "return"}
               THEN [exit |-> "return", ret |-> None, msg |-> d.msg, calls |-> d.calls]
               ELSE d

(***************************************************************************)
(* Inputs                                                                  *)
(***************************************************************************)
\* Handler bodies a class may declare.
Fns == {Fn("return_ctx"), Fn("return_stop")}
\* Label values given to @case(...).
Labels == {Int("1"), Int("2"), DefaultLabel}
\* A positional argument of @case(...); None stands for "no positional argument".
PosArgs == {None, Int("1"), Int("0"), DefaultLabel}
\* Keyword values of @case(...), in call order.
Kwargs == {<<>>} \cup {<<l>> : l \in Labels} \cup {<<l, k>> : l \in Labels, k \in Labels}
\* A class attribute that is not a handler.
DataAttr == Int("7")
\* References passed to enable().
Refs == {Int("1"), Int("2"), Int("6"), DefaultLabel, None}

(***************************************************************************)
(* Declared switch classes used as fixed groups                            *)
(***************************************************************************)
\* @case(k=label) def f(ctx): ...   evaluated through case and wrapper.
Declared(label, f) == Decorate(case(None, <<label>>), f, Unset).val

\* main.py:5-18, its labels written as keywords (the only shape that declares).
MainSwitch ==
    << Declared(Int("1"), Fn("return_ctx")),
       Declared(Int("2"), Fn("return_ctx")),
       Declared(DefaultLabel, Fn("return_ctx")) >>

\* case(1) returns 2, case(2) returns 1, default returns "stop".
LoopSwitch ==
    << Declared(Int("1"), Fn("return_2")),
       Declared(Int("2"), Fn("return_1")),
       Declared(DefaultLabel, Fn("return_stop")) >>

(***************************************************************************)
(* Reading a group                                                         *)
(***************************************************************************)
HandlerIdx(sw) == {i \in 1..Len(sw) : isinstance_Case(sw[i])}
MatchIdx(sw, r) == {i \in HandlerIdx(sw) : sw[i].case = r}
DefaultIdx(sw) == MatchIdx(sw, DefaultLabel)
FirstMatch(sw, r) == CHOOSE i \in MatchIdx(sw, r) : \A j \in MatchIdx(sw, r) : i <= j
NoDuplicateLabels(sw) ==
    \A i, j \in HandlerIdx(sw) : i # j => sw[i].case # sw[j].case
\* The invocations of attribute i's body during the last activation.
CallsOf(i) == {k \in 1..Len(calls) : calls[k].idx = i}

(***************************************************************************)
(* Threads running enable() statement by statement                         *)
(***************************************************************************)
Threads == {1, 2}

ThIdle == [pc |-> "idle", ref |-> Unset, arg |-> Unset, i |-> 0, pass |-> "match",
           ref1 |-> Unset, ret |-> Unset, calls |-> <<>>]

ThInit == [t \in Threads |-> ThIdle]

(***************************************************************************)
(* The switch class body (main.py:5-18) and the activation (main.py:19)    *)
(***************************************************************************)
Init ==
    /\ switch = <<>>
    /\ phase = "declaring"
    /\ declExc = ""
    /\ Matched_msg = Unset
    /\ ref = Unset
    /\ ret = Unset
    /\ outcome = "none"
    /\ calls = <<>>
    /\ memRef = Unset
    /\ memRet = Unset
    /\ cur = Unset
    /\ start = Unset
    /\ n = 0
    /\ since = 0
    /\ th = ThInit

\* @case  def f(ctx): ...      (the bare shape, as at switchcase.py:33)
DeclareBare ==
    /\ phase = "declaring" /\ Len(switch) < MaxAttrs
    /\ \E f \in Fns :
          switch' = Append(switch, case(f, <<>>))
    /\ UNCHANGED <<phase, declExc, Matched_msg, ref, ret, outcome, calls,
                   memRef, memRet, cur, start, n, since, th>>

\* @case(p, **kw)  def f(ctx): ...   : case(p, **kw) is evaluated, then its value is
\* called with f; an exception leaves the class body.
DeclareLabelled ==
    /\ phase = "declaring" /\ Len(switch) < MaxAttrs
    /\ \E p \in PosArgs, kw \in Kwargs, f \in Fns :
          LET d == Decorate(case(p, kw), f, Matched_msg)
          IN /\ Matched_msg' = d.msg
             /\ IF d.exc = ""
                THEN /\ switch' = Append(switch, d.val)
                     /\ UNCHANGED <<phase, declExc>>
                ELSE /\ phase' = "failed"
                     /\ declExc' = d.exc
                     /\ UNCHANGED switch
    /\ UNCHANGED <<ref, ret, outcome, calls, memRef, memRet, cur, start, n, since, th>>

\* x = 7   : an attribute that is no _Case
DeclareData ==
    /\ phase = "declaring" /\ Len(switch) < MaxAttrs
    /\ switch' = Append(switch, DataAttr)
    /\ UNCHANGED <<phase, declExc, Matched_msg, ref, ret, outcome, calls,
                   memRef, memRet, cur, start, n, since, th>>

\* The class body ends: the class exists and can be activated.
EndClass ==
    /\ phase = "declaring"
    /\ phase' = "active"
    /\ UNCHANGED <<switch, declExc, Matched_msg, ref, ret, outcome, calls,
                   memRef, memRet, cur, start, n, since, th>>

\* The effect of one call enable(switch, r) run to completion (main.py:19).
Activate(r) ==
    LET e == enable(switch, r, Matched_msg)
    IN /\ ref' = r
       /\ ret' = e.ret
       /\ outcome' = e.exit
       /\ calls' = e.calls
       /\ Matched_msg' = e.msg

\* enable(switch, r) on the declared class.
Enable ==
    /\ phase = "active"
    /\ \E r \in Refs : Activate(r)
    /\ UNCHANGED <<switch, phase, declExc, memRef, memRet, cur, start, n, since, th>>

Next == DeclareBare \/ DeclareLabelled \/ DeclareData \/ EndClass \/ Enable

Spec == Init /\ [][Next]_vars

(***************************************************************************)
(* Repeated activation of one declared class                               *)
(***************************************************************************)
\* What a class body can bind an attribute to without raising.
Attrs ==
    {DataAttr} \cup {case(f, <<>>) : f \in Fns}
               \cup {Declared(l, f) : l \in Labels, f \in Fns}

\* The classes of at most MaxTwiceAttrs attributes.
Switches == UNION {[1..k -> Attrs] : k \in 0..MaxTwiceAttrs}

InitTwice ==
    /\ switch \in Switches
    /\ phase = "active"
    /\ declExc = ""
    /\ Matched_msg = Unset
    /\ ref = Unset
    /\ ret = Unset
    /\ outcome = "none"
    /\ calls = <<>>
    /\ memRef = Unset
    /\ memRet = Unset
    /\ cur = Unset
    /\ start = Unset
    /\ n = 0
    /\ since = 0
    /\ th = ThInit

\* enable(switch, r); the caller may keep one (r, result) pair of its choice, to
\* compare later calls against.
EnableKeep ==
    /\ phase = "active"
    /\ \E r \in Refs, keep \in BOOLEAN :
          /\ Activate(r)
          /\ IF memRef = Unset
             THEN IF keep
                  THEN memRef' = r /\ memRet' = ret' /\ since' = 0
                  ELSE UNCHANGED <<memRef, memRet, since>>
             ELSE /\ UNCHANGED <<memRef, memRet>>
                  /\ since' = IF since < 2 THEN since + 1 ELSE since
    /\ UNCHANGED <<switch, phase, declExc, cur, start, n, th>>

NextTwice == EnableKeep

SpecTwice == InitTwice /\ [][NextTwice]_vars

(***************************************************************************)
(* The caller's loop   ref = enable(switch, ref)                           *)
(***************************************************************************)
InitLoop ==
    /\ switch = LoopSwitch
    /\ phase = "active"
    /\ declExc = ""
    /\ Matched_msg = Unset
    /\ ref = Unset
    /\ ret = Unset
    /\ outcome = "none"
    /\ calls = <<>>
    /\ memRef = Unset
    /\ memRet = Unset
    /\ cur \in Refs
    /\ start = cur
    /\ n = 0
    /\ since = 0
    /\ th = ThInit

\* One iteration: the returned value becomes the next reference.
LoopStep ==
    /\ phase = "active" /\ n < MaxSteps
    /\ Activate(cur)
    /\ cur' = ret'
    /\ n' = n + 1
    /\ UNCHANGED <<switch, phase, declExc, memRef, memRet, start, since, th>>

NextLoop == LoopStep

SpecLoop == InitLoop /\ [][NextLoop]_vars

(***************************************************************************)
(* Two callers running enable() at once, one statement per step.  The      *)
(* class attribute Matched.msg is the only state the calls share.          *)
(***************************************************************************)
InitThreads ==
    /\ switch \in {MainSwitch, LoopSwitch}
    /\ phase = "active"
    /\ declExc = ""
    /\ Matched_msg = Unset
    /\ ref = Unset
    /\ ret = Unset
    /\ outcome = "none"
    /\ calls = <<>>
    /\ memRef = Unset
    /\ memRet = Unset
    /\ cur = Unset
    /\ start = Unset
    /\ n = 0
    /\ since = 0
    /\ th = ThInit

ThreadFrame == <<switch, phase, declExc, ref, ret, outcome, calls,
                 memRef, memRet, cur, start, n, since>>

\* Thread t calls enable(switch, r): the for loop of line 61 starts.
T_Call(t) ==
    /\ th[t].pc = "idle"
    /\ \E r \in Refs :
          th' = [th EXCEPT ![t] = [ThIdle EXCEPT !.pc = "for", !.ref = r, !.arg = r, !.i = 1]]
    /\ UNCHANGED Matched_msg
    /\ UNCHANGED ThreadFrame

\* One turn of the for loop (lines 61-67, or 39-45 inside copyEnable): the isinstance
\* test and the call of the attribute up to line 12, or the end of the loop.
T_For(t) ==
    /\ th[t].pc = "for"
    /\ LET s == th[t] IN
       IF s.i > Len(switch)
       THEN IF s.pass = "match"
            THEN \* line 70: copyEnable(switch, ref="__default__")
                 th' = [th EXCEPT ![t] = [s EXCEPT !.arg = DefaultLabel, !.i = 1, !.pass = "fallback"]]
            ELSE \* copyEnable ends, then enable ends: both return None
                 th' = [th EXCEPT ![t] = [s EXCEPT !.pc = "done", !.ret = None]]
       ELSE IF ~isinstance_Case(switch[s.i])
       THEN th' = [th EXCEPT ![t] = [s EXCEPT !.i = s.i + 1]]
       ELSE IF s.arg = switch[s.i].case
       THEN \* line 12: ref1 = self.function(ref)
            th' = [th EXCEPT ![t] = [s EXCEPT !.pc = "assign",
                                             !.ref1 = FunctionBody(switch[s.i].function, s.arg),
                                             !.calls = Append(s.calls, Invocation(s.i, s.arg, s.pass))]]
       ELSE \* line 16 raises NotMatchedError, caught at line 66 (44)
            th' = [th EXCEPT ![t] = [s EXCEPT !.i = s.i + 1]]
    /\ UNCHANGED Matched_msg
    /\ UNCHANGED ThreadFrame

\* Line 13: Matched.msg = ref1; line 14 then raises Matched.
T_Assign(t) ==
    /\ th[t].pc = "assign"
    /\ Matched_msg' = th[t].ref1
    /\ th' = [th EXCEPT ![t].pc = "raised"]
    /\ UNCHANGED ThreadFrame

\* The except clause: line 69 returns Matched.msg as it is now; inside copyEnable
\* line 47 does, and enable drops that value and returns None.
T_Except(t) ==
    /\ th[t].pc = "raised"
    /\ th' = [th EXCEPT ![t].pc = "done",
                        ![t].ret = IF th[t].pass = "match" THEN Matched_msg ELSE None]
    /\ UNCHANGED Matched_msg
    /\ UNCHANGED ThreadFrame

\* The caller takes the result and is free to call again.
T_Return(t) ==
    /\ th[t].pc = "done"
    /\ th' = [th EXCEPT ![t] = ThIdle]
    /\ UNCHANGED Matched_msg
    /\ UNCHANGED ThreadFrame

NextThreads ==
    \E t \in Threads : T_Call(t) \/ T_For(t) \/ T_Assign(t) \/ T_Except(t) \/ T_Return(t)

SpecThreads == InitThreads /\ [][NextThreads]_vars

(***************************************************************************)
(* Properties                                                              *)
(***************************************************************************)
\* An enable() call has completed (Spec, SpecTwice, SpecLoop).
Activated == outcome # "none"

\* C1: in a group without duplicate labels, a reference equal to exactly one declared
\* label makes enable return what that label's body returns for the reference, and
\* that body is the only one invoked, once.
C1_UniqueMatchReturnsItsBody ==
    (Activated /\ NoDuplicateLabels(switch) /\ Cardinality(MatchIdx(switch, ref)) = 1)
    => LET i == FirstMatch(switch, ref)
       IN /\ outcome = "return"
          /\ ret = FunctionBody(switch[i].function, ref)
          /\ Len(calls) = 1
          /\ calls[1].idx = i
          /\ calls[1].ctx = ref

\* C1 witness: three handlers with distinct labels, the middle one matched and ran
\* alone although a default handler follows it.
C1_Witness ==
    /\ Activated /\ Len(switch) = 3 /\ NoDuplicateLabels(switch)
    /\ HandlerIdx(switch) = {1, 2, 3}
    /\ MatchIdx(switch, ref) = {2}
    /\ DefaultIdx(switch) = {3}
    /\ switch[2].function = Fn("return_stop")
    /\ ret = Str("stop")
    /\ calls = <<Invocation(2, ref, "match")>>

\* C2 (specified behaviour, which the code violates): with exactly one default handler and a reference equal to no
\* non-default label, enable returns what the default body returned, and that body
\* was invoked exactly once.
C2_DefaultResultReturned ==
    (/\ Activated
     /\ Cardinality(DefaultIdx(switch)) = 1
     /\ \A i \in HandlerIdx(switch) : switch[i].case # DefaultLabel => switch[i].case # ref)
    => LET d == FirstMatch(switch, DefaultLabel)
       IN /\ outcome = "return"
          /\ Cardinality(CallsOf(d)) = 1
          /\ \A k \in CallsOf(d) : ret = FunctionBody(switch[d].function, calls[k].ctx)

\* C3 (specified behaviour, which the code violates): activating a group with no default-labelled handler ends in an
\* error raised to the caller, never in a normal return.
C3_MissingDefaultRaises ==
    (Activated /\ DefaultIdx(switch) = {})
    => outcome \notin {"return", "Matched", "NotMatchedError"}

\* C4: when several handlers carry a label equal to the reference, enable returns
\* the result of the earliest declared one, and its body is the only one invoked.
C4_FirstMatchWins ==
    (Activated /\ Cardinality(MatchIdx(switch, ref)) >= 2)
    => LET i == FirstMatch(switch, ref)
       IN /\ outcome = "return"
          /\ ret = FunctionBody(switch[i].function, ref)
          /\ calls = <<Invocation(i, ref, "match")>>

\* C4 witness: two handlers with the reference's label and different bodies; the
\* result is the earlier one's and differs from what the later one would return.
C4_Witness ==
    /\ Activated
    /\ \E i, j \in MatchIdx(switch, ref) :
          /\ i < j
          /\ i = FirstMatch(switch, ref)
          /\ ret = FunctionBody(switch[i].function, ref)
          /\ ret # FunctionBody(switch[j].function, ref)
          /\ CallsOf(j) = {}

\* C5 (specified behaviour, which the code violates): neither a declaration through @case nor an activation ends by
\* propagating Matched or NotMatchedError to the caller.
C5_SignalsNeverEscape ==
    /\ declExc \notin {"Matched", "NotMatchedError"}
    /\ outcome \notin {"Matched", "NotMatchedError"}

\* C6 (specified behaviour, which the code violates): with two callers interleaved, a finished activation whose
\* reference matches a handler holds that handler's result for its own reference.
C6_InterleavedCallsKeepOwnResult ==
    \A t \in Threads :
        (th[t].pc = "done" /\ MatchIdx(switch, th[t].ref) # {})
        => th[t].ret = FunctionBody(switch[FirstMatch(switch, th[t].ref)].function, th[t].ref)

\* C7: an activation with the same reference as a remembered earlier one returns
\* the same result, whatever activations happened before or between the two.
C7_SameRefSameResult ==
    (Activated /\ memRef = ref) => (outcome = "return" /\ ret = memRet)

\* C7 witness: the reference of the remembered call is used again two or more calls
\* later, after some other activation matched and left a different Matched.msg.
C7_Witness ==
    /\ Activated /\ memRef = ref /\ since = 2
    /\ ret = memRet
    /\ Matched_msg # Unset /\ Matched_msg # ret

\* C8: over case(1)->2, case(2)->1, default->"stop", the loop started at 1 holds
\* 1, 2, 1, 2, ... ; each activation returns what the body labelled with its
\* reference returns, and the default body is never invoked.
C8_LoopAlternates ==
    start = Int("1")
    => /\ cur = IF n % 2 = 0 THEN Int("1") ELSE Int("2")
       /\ n > 0 =>
            /\ outcome = "return"
            /\ MatchIdx(switch, ref) # {}
            /\ ret = FunctionBody(switch[FirstMatch(switch, ref)].function, ref)
            /\ \A k \in 1..Len(calls) : switch[calls[k].idx].case # DefaultLabel

\* C8 witness: the loop started at 1 is back at 1 after four or more iterations,
\* the last of which was enable(switch, 2) returning 1.
C8_Witness ==
    /\ start = Int("1") /\ n >= 4
    /\ ref = Int("2") /\ ret = Int("1") /\ cur = Int("1")

\* C9 (specified behaviour, which the code violates): an activation changes neither the class's handlers nor any
\* module- or class-level state of the engine.
C9_ActivationLeavesNoState ==
    [][phase = "active" => (switch' = switch /\ Matched_msg' = Matched_msg)]_vars

\* C10 (specified behaviour, which the code violates): the default handler's body runs only in the fallback pass,
\* never in the matching pass because the reference equalled the default label.
C10_DefaultOnlyInFallback ==
    \A k \in 1..Len(calls) :
        switch[calls[k].idx].case = DefaultLabel => calls[k].pass = "fallback"

====
